---- MODULE Spec2Model ----
(***************************************************************************)
(* The multi-layer tape configurators of SimovicM/alura as one state        *)
(* machine.  Three builds of the component exist in the repository and the  *)
(* variable "variant" says which one is running:                            *)
(*   "A"  src/unnamed/part_000            (pointer events, isDragging state)*)
(*   "B"  src/unnamed/part_001            (mouse + touch events, deferred   *)
(*                                         selection update on delete)      *)
(*   "C"  src/src/components/TapeConfigurator.tsx, lines 1132-1688          *)
(*                                        (mouse events only)               *)
(* Numbers: canvas coordinates are integers, a scale is kept in hundredths  *)
(* (15 stands for 0.15), a rotation in degrees.                             *)
(***************************************************************************)
EXTENDS Integers, Sequences, FiniteSets, TLC

\* ------------------------------------------------------------------ bounds
MaxUploads == 2      \* accepted file selections in one run
MaxClock   == 2      \* readings of Date.now() in one run
MaxEdits   == 2      \* rotate / zoom clicks and drags started in one run
MaxTimers  == 1      \* setTimeout callbacks of doDelete waiting at once
MaxCart    == 1      \* designs added to the cart
MaskLen    == 2      \* pixels of a mask image given to processMaskImage
MaxTurn    == 345    \* largest rotation followed in a long run of edits
MaxItems   == 2      \* items of a cart at checkout
MaxSubmits == 3      \* submissions of the checkout form

\* --------------------------------------------------------- program constants
CANVAS_WIDTH  == 1024
CANVAS_HEIGHT == 300
DefaultScale  == 15      \* scale: 0.15
RotateStep    == 15
ZoomStepAB    == 3       \* 0.03
ZoomMaxAB     == 200     \* Math.min(2, ...)
ZoomMinAB     == 1       \* Math.max(0.01, ...)
ZoomStepC     == 10      \* 0.1
ZoomMaxC      == 300     \* Math.min(..., 3)
ZoomMinC      == 10      \* Math.max(..., 0.1)
FullTurn      == 360

Variants == {"A", "B", "C"}

NULL == <<>>

\* The files the user can pick.  Files 1 and 2 are images (file.type starts
\* with "image/"), file 3 is not.
Files      == {1, 2, 3}
ImageFiles == {1, 2}

\* A photograph much larger than any canvas (12000 x 9000), picked in the
\* single-image customizer.
PhotoFiles == {4}
IsImageType(f) == f \in ImageFiles \cup PhotoFiles

\* image.width / image.height of the bitmap decoded from a file.
ImgWidth(f)  == IF f = 1 THEN 400 ELSE IF f = 2 THEN 200 ELSE 12000
ImgHeight(f) == IF f = 1 THEN 200 ELSE IF f = 2 THEN 400 ELSE 9000

\* Values of Math.random().toString(36).substr(2, 9) in build A; the other
\* builds put nothing after Date.now().
RandSuffix(v) == IF v = "A" THEN {1, 2} ELSE {0}

\* canvas.getBoundingClientRect(): the canvas is shown at half its resolution.
Rect == [left |-> 10, top |-> 20, width |-> 512, height |-> 150]

\* clientX / clientY of the pointer events the user produces.
ClientPoints == { <<266, 95>>, <<276, 100>> }

Abs(n) == IF n < 0 THEN -n ELSE n
Min(a, b) == IF a < b THEN a ELSE b
Max(a, b) == IF a > b THEN a ELSE b

VARIABLES
    variant,          \* which build runs
    tape,             \* the tape image: "pending", "loaded" or "failed"
    isLoading,        \* useState(true); builds A and B only
    layers,           \* useState<ImageLayer[]>([])
    selectedLayerId,  \* useState<string | null>(null)
    isProcessing,     \* useState(false); builds A and B only
    isDragging,       \* isDragging state (A) / isDraggingRef.current (B, C)
    dragStart,        \* dragStartRef.current
    pending,          \* decodes in flight: file -> how many
    timers,           \* build B: selections waiting in setTimeout(..., 0)
    clock,            \* the latest reading of Date.now()
    nUploads,         \* accepted file selections so far (bounded)
    nEdits,           \* rotate / zoom clicks and drags started so far (bounded)
    ev,               \* history: what kind of event came last
    issued,           \* history: the ids given to layers, in creation order
    dragUid,          \* history: serial number of the layer hit at pointer-down
    canvas,           \* the pixels of canvasRef.current
    exported,         \* the last arguments of onDesignReady
    alert,            \* the message of window.alert in the last event, or "none"
    \* TapeCustomizer (part_004) inside Configurator (part_003)
    tapeAssets,       \* tapeBase and tapeMask: "pending", "loaded" or "failed"
    userImage,        \* useState<HTMLImageElement | null>(null)
    transform,        \* useState<Transform>
    reads,            \* FileReaders of handleImageUpload in flight
    decodes,          \* images of handleImageUpload being decoded
    imageFile,        \* Configurator: useState<File | null>(null)
    designDataUrl,    \* Configurator: useState<string | null>(null)
    cart,             \* the designs given to onAddToCart
    completed,        \* history: decodes completed and removals, in order
    \* ImageUploader
    chosen,           \* history: the files given to handleFile, in order
    reading,          \* FileReaders of handleFile in flight
    selected,         \* the calls of onImageSelect, in order
    currentImage,     \* the currentImage prop
    \* TapeConfigurator with a processed mask (TapeConfigurator.tsx 409-805)
    loads,            \* the two loadImage promises: "pending", "loaded", "failed"
    processedMask,    \* useState<HTMLCanvasElement | null>(null)
    userFile,         \* useState<File | null>(null)
    maskData,         \* imageData.data of the mask image drawn on maskCanvas
    \* Checkout
    checkout          \* the state of Checkout, its requests and its parent

\* the state of the single-image customizer and of its parent
customizerVars == << tapeAssets, userImage, transform, reads, decodes,
                     imageFile, designDataUrl, cart, completed >>

\* the state of the uploader and of its props
uploaderVars == << chosen, reading, selected, currentImage >>

\* the state of the configurator with a processed mask that is its own
maskedVars == << loads, processedMask, userFile, maskData >>

\* the state of the multi-layer configurator
configuratorVars == << tape, isLoading, layers, selectedLayerId, isProcessing,
                       dragStart, pending, timers, clock, ev, issued, dragUid,
                       canvas, exported >>

vars == << variant, tape, isLoading, layers, selectedLayerId, isProcessing,
           isDragging, dragStart, pending, timers, clock, nUploads, nEdits,
           ev, issued, dragUid, canvas, exported, alert, customizerVars,
           uploaderVars, maskedVars, checkout >>

\* the variables no handler of the multi-layer configurator writes
otherVars == << alert, customizerVars, uploaderVars, maskedVars, checkout >>

\* ------------------------------------------------------------------ helpers
RECURSIVE FilterFrom(_, _, _)
FilterFrom(ls, i, id) ==
    IF i > Len(ls) THEN << >>
    ELSE IF ls[i].id # id THEN << ls[i] >> \o FilterFrom(ls, i + 1, id)
         ELSE FilterFrom(ls, i + 1, id)

\* prev.filter(l => l.id !== id)
FilterOut(ls, id) == FilterFrom(ls, 1, id)

\* a map that changes every layer, whatever its id
MapEvery(ls, id, edited) == edited

\* prev.map(l => l.id === id ? { ...l, changes } : l), where edited[i] is
\* { ...l, changes } for the i-th layer
MapSelected(ls, id, edited) ==
    [i \in 1..Len(ls) |-> IF ls[i].id = id THEN edited[i] ELSE ls[i]]

\* layers.find(l => l.id === id) !== undefined
HasLayer(ls, id) == \E i \in 1..Len(ls) : ls[i].id = id

\* remaining.length > 0 ? remaining[remaining.length - 1].id : null
LastIdOrNull(ls) == IF Len(ls) > 0 THEN ls[Len(ls)].id ELSE NULL

\* getCanvasCoords / getCoords: client coordinates to canvas coordinates
getCanvasCoords(c) ==
    << (c[1] - Rect.left) * (CANVAS_WIDTH \div Rect.width),
       (c[2] - Rect.top) * (CANVAS_HEIGHT \div Rect.height) >>

\* The test of findLayerAtPoint: Math.abs(x - l.x) < w && Math.abs(y - l.y) < h
\* with w = image.width * scale / 2 and h = image.height * scale / 2
\* (multiplied through by 200, scale being in hundredths).
HitsLayer(l, x, y) ==
    /\ 200 * Abs(x - l.x) < ImgWidth(l.image) * l.scale
    /\ 200 * Abs(y - l.y) < ImgHeight(l.image) * l.scale

RECURSIVE ScanDown(_, _, _, _)
\* for (let i = n - 1; i >= 0; i--) { if (hit) return layer } return null
\* as the index of the layer returned, 0 standing for null
ScanDown(ls, i, x, y) ==
    IF i < 1 THEN 0
    ELSE IF HitsLayer(ls[i], x, y) THEN i
         ELSE ScanDown(ls, i - 1, x, y)

RECURSIVE ScanUp(_, _, _, _)
ScanUp(ls, i, x, y) ==
    IF i > Len(ls) THEN 0
    ELSE IF HitsLayer(ls[i], x, y) THEN i
         ELSE ScanUp(ls, i + 1, x, y)

findLayerAtPointFirstAdded(ls, x, y) == ScanUp(ls, 1, x, y)

findLayerAtPointOrTop(ls, x, y) ==
    IF ScanDown(ls, Len(ls), x, y) = 0 THEN Len(ls) ELSE ScanDown(ls, Len(ls), x, y)

findLayerAtPoint(ls, x, y) == ScanDown(ls, Len(ls), x, y)

\* The kind of the last event, kept as history: a click on a control button
\* while nothing was selected, a pointer-down that hit no layer, an event that
\* is to end a drag (pointer-up, cancel, leave), or any other.
ControlEvent ==
    IF selectedLayerId = NULL THEN "controlNoSelection" ELSE "other"

\* The same for an event that is to change a transform (rotate, zoom, reset,
\* drag-move): it also tells a selection that names no layer of the list.
MutationEvent ==
    IF selectedLayerId = NULL THEN "controlNoSelection"
    ELSE IF ~HasLayer(layers, selectedLayerId) THEN "mutationStale"
    ELSE "other"

EmptyDrag == [x |-> 0, y |-> 0, startX |-> 0, startY |-> 0]


\* The component shows only a spinner while isLoading: no canvas, no buttons.
Mounted == ~isLoading

\* ---------------------------------------------------------------- rendering
\* A pixel of the canvas: alpha and colour, both in 0..255.
Transparent == [a |-> 0, rgb |-> << 0, 0, 0 >>]

Opaque(rgb) == [a |-> 255, rgb |-> rgb]

\* ctx.fillStyle = '#0a0a0a'
BackgroundColor == << 10, 10, 10 >>

\* ctx.strokeStyle = '#22c55e'
StrokeColor == << 34, 197, 94 >>

\* The pixels of /tape.png, stretched over the canvas: an opaque white band
\* across the middle of the canvas, transparent above and below it.
TapeColor == << 255, 255, 255 >>

TapeOpaque(p) == p[2] >= 140 /\ p[2] <= 160

\* The pixels of the uploaded images: each file decodes to an opaque bitmap of
\* one colour.
ImageColor(f) == IF f = 1 THEN << 51, 51, 51 >> ELSE << 85, 85, 85 >>

\* The pixels of the canvas that are watched: the canvas centre; a pixel above
\* the tape band inside the default box of a layer; the corner where the
\* outline of a default layer of file 1 starts; a pixel inside the band that
\* a layer of file 1 covers only once it is moved.
SamplePixels ==
    { << 512, 150 >>, << 512, 137 >>, << 482, 135 >>, << 550, 158 >> }

\* a canvas no pass has drawn on
Blank == [p \in SamplePixels |-> Transparent]

\* 1000 * cos of an angle of the first quadrant, a multiple of 15 degrees
CosQuadrant(d) ==
    CASE d = 0 -> 1000 [] d = 15 -> 966 [] d = 30 -> 866 [] d = 45 -> 707
      [] d = 60 -> 500 [] d = 75 -> 259 [] d = 90 -> 0

\* 1000 * cos and 1000 * sin of a rotation in degrees (a multiple of 15)
Cos1000(deg) ==
    LET d == deg % 360
        h == IF d > 180 THEN 360 - d ELSE d
    IN  IF h > 90 THEN -CosQuadrant(180 - h) ELSE CosQuadrant(h)

Sin1000(deg) == Cos1000(deg - 90)

\* The pixel in the coordinates of the layer after translate(x, y) and
\* rotate(rotation), in thousandths of a pixel.
LocalX(l, p) ==
    (p[1] - l.x) * Cos1000(l.rotation) + (p[2] - l.y) * Sin1000(l.rotation)

LocalY(l, p) ==
    (p[2] - l.y) * Cos1000(l.rotation) - (p[1] - l.x) * Sin1000(l.rotation)

\* width and height of the drawn layer in thousandths of a pixel
DrawnWidth(l)  == ImgWidth(l.image) * l.scale * 10
DrawnHeight(l) == ImgHeight(l.image) * l.scale * 10

\* the point (lx, ly) lies in the box of width w and height h about the origin
InRect(lx, ly, w, h) == 2 * Abs(lx) <= w /\ 2 * Abs(ly) <= h

\* drawImage(layer.image, -width / 2, -height / 2) under translate, rotate,
\* scale: the pixels the bitmap lands on
Covers(l, p) == InRect(LocalX(l, p), LocalY(l, p), DrawnWidth(l), DrawnHeight(l))

\* lineWidth = 3: half of it, in thousandths
HalfLine == 1500

\* setLineDash([8, 4]), in thousandths
DashOn  == 8000
DashOff == 4000

\* How far along the path of strokeRect(-w / 2, -h / 2, w, h) the point
\* (lx, ly) lies (top edge, right edge, bottom edge, left edge), or -1 off
\* the stroke.
StrokeAt(lx, ly, w, h) ==
    IF ~InRect(lx, ly, w + 2 * HalfLine, h + 2 * HalfLine) THEN -1
    ELSE IF Abs(2 * ly + h) <= 2 * HalfLine THEN Max(0, (2 * lx + w) \div 2)
    ELSE IF Abs(2 * lx - w) <= 2 * HalfLine THEN w + Max(0, (2 * ly + h) \div 2)
    ELSE IF Abs(2 * ly - h) <= 2 * HalfLine
         THEN w + h + Max(0, (w - 2 * lx) \div 2)
    ELSE IF Abs(2 * lx + w) <= 2 * HalfLine
         THEN 2 * w + h + Max(0, (h - 2 * ly) \div 2)
    ELSE -1

StrokePosition(l, p) ==
    StrokeAt(LocalX(l, p), LocalY(l, p), DrawnWidth(l), DrawnHeight(l))

\* the stroke at position s of the path is in a dash, not in a gap
InDash(s) == s >= 0 /\ s % (DashOn + DashOff) < DashOn

\* the pixels a dash of the outline lands on
OnOutline(l, p) == InDash(StrokePosition(l, p))

\* globalCompositeOperation = 'multiply' of two opaque colours, per channel
Multiply(c1, c2) == [k \in 1..3 |-> (c1[k] * c2[k]) \div 255]

\* The drawing calls of the render pass.
NoLayer == [uid |-> 0]

Call(op, mode, l) == [op |-> op, mode |-> mode, layer |-> l]

\* What one drawing call makes of the value v of pixel p.
Draw(call, p, v) ==
    CASE call.op = "clearRect" -> Transparent
      [] call.op = "fillRect"  -> Opaque(BackgroundColor)
      [] call.op = "drawTape"  ->
            IF call.mode = "destination-in"
            THEN (IF TapeOpaque(p) THEN v ELSE Transparent)
            ELSE (IF TapeOpaque(p) THEN Opaque(TapeColor) ELSE v)
      [] call.op = "drawLayer" ->
            IF ~Covers(call.layer, p) THEN v
            ELSE IF v.a = 0 \/ call.mode = "source-over"
                 THEN Opaque(ImageColor(call.layer.image))
                 ELSE Opaque(Multiply(v.rgb, ImageColor(call.layer.image)))
      [] call.op = "strokeRect" ->
            IF OnOutline(call.layer, p) THEN Opaque(StrokeColor) ELSE v

\* the one element of a set of one element
The(S) == CHOOSE x \in S : TRUE

\* the value of pixel p after the first n calls, from value v (each
\* intermediate value is bound once, as an element of a set)
RECURSIVE DrawAll(_, _, _, _)
DrawAll(calls, n, p, v) ==
    IF n = 0 THEN v
    ELSE The({ Draw(calls[n], p, prev) : prev \in { DrawAll(calls, n - 1, p, v) } })

\* the canvas after the calls are made on canvas cv
Paint(calls, cv) ==
    The({ [p \in SamplePixels |-> DrawAll(cs, Len(cs), p, cv[p])] : cs \in { calls } })

\* layers.find(l => l.id === selectedLayerId)
FindSelected(ls, id) ==
    IF HasLayer(ls, id)
    THEN << ls[CHOOSE i \in 1..Len(ls) :
                 ls[i].id = id /\ \A j \in 1..(i - 1) : ls[j].id # id] >>
    ELSE << >>

\* renderToCanvas / render / renderCanvas of the multi-layer builds, with the
\* tape image loaded: the calls it makes, in order
RenderCalls(ls, id) ==
    << Call("clearRect", "source-over", NoLayer),
       Call("fillRect", "source-over", NoLayer),
       Call("drawTape", "source-over", NoLayer) >>
    \o [i \in 1..Len(ls) |-> Call("drawLayer", "multiply", ls[i])]
    \o (IF Len(ls) > 0 THEN << Call("drawTape", "destination-in", NoLayer) >>
        ELSE << >>)
    \o [i \in 1..Len(FindSelected(ls, id)) |->
            Call("strokeRect", "source-over", FindSelected(ls, id)[i])]

\* onDesignReady has not been called
NoExport == [image |-> Blank, files |-> << >>]

\* The files given to onDesignReady: layers[0].file in build A,
\* layers.map(l => l.file) in builds B and C.
ExportFiles(ls) ==
    IF variant = "A" THEN << ls[1].file >> ELSE [i \in 1..Len(ls) |-> ls[i].file]

\* The effects React runs after the handler's state updates, before the next
\* event: the render pass when the tape image, the layers or the selection
\* changed, and the call of onDesignReady (same effect in builds A and B; an
\* effect of its own, run when the layers changed, in build C).  layersSet
\* tells whether the handler called setLayers.  The onDesignReady prop is
\* taken to stay the same function.
RenderEffects(layersSet) ==
    LET renderRuns == \/ layersSet
                      \/ selectedLayerId' # selectedLayerId
                      \/ (tape' = "loaded" /\ tape # "loaded")
        exportRuns == IF variant = "C" THEN layersSet ELSE renderRuns
        draws == renderRuns /\ tape' = "loaded" /\ ~isLoading'
    IN  /\ canvas' = (IF draws
                      THEN Paint(RenderCalls(layers', selectedLayerId'), canvas)
                      ELSE canvas)
        /\ exported' = (IF exportRuns /\ ~isLoading' /\ Len(layers') > 0
                        THEN [image |-> canvas', files |-> ExportFiles(layers')]
                        ELSE exported)
        /\ UNCHANGED otherVars

\* --------------------------------------------------------------- tape asset
\* img.onload of the tape image
TapeLoaded ==
    /\ tape = "pending"
    /\ tape' = "loaded"
    /\ isLoading' = FALSE
    /\ ev' = "other"
    /\ UNCHANGED << variant, layers, selectedLayerId, isProcessing, isDragging,
                    dragStart, pending, timers, clock, nUploads, nEdits,
                    issued, dragUid >>
    /\ RenderEffects(FALSE)

\* img.onerror of the tape image
TapeFailed ==
    /\ tape = "pending"
    /\ tape' = "failed"
    /\ isLoading' = FALSE
    /\ ev' = "other"
    /\ UNCHANGED << variant, layers, selectedLayerId, isProcessing, isDragging,
                    dragStart, pending, timers, clock, nUploads, nEdits,
                    issued, dragUid >>
    /\ RenderEffects(FALSE)

\* ------------------------------------------------------------------ uploads
\* handleFileChange / handleFileSelect: the user picked file f
FileChange(f) ==
    /\ Mounted
    /\ nUploads < MaxUploads
    /\ ev' = (IF IsImageType(f) THEN "other" ELSE "fileRejected")
    /\ IF ~IsImageType(f)
       THEN UNCHANGED << isProcessing, pending, nUploads >>
       ELSE /\ isProcessing' = (IF variant = "C" THEN isProcessing ELSE TRUE)
            /\ pending' = [pending EXCEPT ![f] = @ + 1]
            /\ nUploads' = nUploads + 1
    /\ UNCHANGED << variant, tape, isLoading, layers, selectedLayerId,
                    isDragging, dragStart, timers, clock, nEdits, issued, dragUid >>
    /\ RenderEffects(FALSE)

\* the layer img.onload builds
NewLayer(f, t, r) ==
    [ uid |-> Len(issued) + 1, id |-> <<t, r>>, image |-> f, file |-> f,
      x |-> CANVAS_WIDTH \div 2, y |-> CANVAS_HEIGHT \div 2,
      scale |-> DefaultScale, rotation |-> 0 ]

\* the first layer of a session, made from file 1 at the first clock reading
FirstLayer(v) ==
    [ uid |-> 1, id |-> << 1, IF v = "A" THEN 1 ELSE 0 >>, image |-> 1,
      file |-> 1, x |-> CANVAS_WIDTH \div 2, y |-> CANVAS_HEIGHT \div 2,
      scale |-> DefaultScale, rotation |-> 0 ]

AddLayerFirst(ls, l) == << l >> \o ls

AddLayer(ls, l) == Append(ls, l)

\* img.onload of an upload of file f, run when Date.now() reads t; r is the
\* random suffix of the id
DecodeComplete(f, t, r) ==
    /\ pending[f] > 0
    /\ t \in clock..MaxClock
    /\ clock' = t
    /\ pending' = [pending EXCEPT ![f] = @ - 1]
    /\ layers' = AddLayer(layers, NewLayer(f, t, r))
    /\ selectedLayerId' = NewLayer(f, t, r).id
    /\ isProcessing' = (IF variant = "C" THEN isProcessing ELSE FALSE)
    /\ issued' = Append(issued, NewLayer(f, t, r).id)
    /\ ev' = "other"
    /\ UNCHANGED << variant, tape, isLoading, isDragging, dragStart, timers,
                    nUploads, nEdits, dragUid >>
    /\ RenderEffects(TRUE)

\* img.onload of an upload of file f, at any clock reading and random suffix
Decode(f) ==
    \E t \in 1..MaxClock : \E r \in RandSuffix(variant) : DecodeComplete(f, t, r)

\* the FileReader or the image fails: no onerror handler is installed
DecodeFail(f) ==
    /\ pending[f] > 0
    /\ pending' = [pending EXCEPT ![f] = @ - 1]
    /\ ev' = "other"
    /\ UNCHANGED << variant, tape, isLoading, layers, selectedLayerId,
                    isProcessing, isDragging, dragStart, timers, clock,
                    nUploads, nEdits, issued, dragUid >>
    /\ RenderEffects(FALSE)

\* ----------------------------------------------------------------- controls
\* control buttons that are never disabled
ControlNeverDisabled == FALSE

\* The disabled attribute of the control buttons (build A: !selectedLayer;
\* build B: !hasSelection); build C shows its toolbar only when hasSelection
\* and disables the fullscreen one when !hasSelection.
ControlDisabled ==
    IF variant = "A" THEN ~HasLayer(layers, selectedLayerId)
    ELSE selectedLayerId = NULL

\* "if (!selectedLayerId) return;" opens every handler of build A
EarlyReturn == variant = "A" /\ selectedLayerId = NULL

\* a % n of JavaScript: the remainder takes the sign of the dividend
JsRem(a, n) == IF a >= 0 THEN a % n ELSE -((-a) % n)

\* rotate-left without the added full turn
RotLeftNoTurn(l) ==
    [l EXCEPT !.rotation =
        IF variant = "C" THEN JsRem(l.rotation - RotateStep, FullTurn)
        ELSE l.rotation - RotateStep]

RotLeft(l) ==
    [l EXCEPT !.rotation =
        IF variant = "C" THEN JsRem(l.rotation - RotateStep + FullTurn, FullTurn)
        ELSE l.rotation - RotateStep]

RotRight(l) ==
    [l EXCEPT !.rotation =
        IF variant = "C" THEN JsRem(l.rotation + RotateStep, FullTurn)
        ELSE l.rotation + RotateStep]

ZoomedIn(l) ==
    [l EXCEPT !.scale =
        IF variant = "C" THEN Min(l.scale + ZoomStepC, ZoomMaxC)
        ELSE Min(ZoomMaxAB, l.scale + ZoomStepAB)]

\* zoom-out without the lower clamp
ZoomedOutUnclamped(l) ==
    [l EXCEPT !.scale = l.scale - (IF variant = "C" THEN ZoomStepC ELSE ZoomStepAB)]

ZoomedOut(l) ==
    [l EXCEPT !.scale =
        IF variant = "C" THEN Max(l.scale - ZoomStepC, ZoomMinC)
        ELSE Max(ZoomMinAB, l.scale - ZoomStepAB)]

Defaulted(l) ==
    [l EXCEPT !.x = CANVAS_WIDTH \div 2, !.y = CANVAS_HEIGHT \div 2,
              !.scale = DefaultScale, !.rotation = 0]

\* A click on a rotate or zoom button: setLayers(prev => prev.map(...))
EditClick(edited) ==
    /\ Mounted
    /\ ev' = MutationEvent
    /\ IF ControlDisabled \/ EarlyReturn
       THEN UNCHANGED << layers, nEdits >>
       ELSE /\ nEdits < MaxEdits
            /\ nEdits' = nEdits + 1
            /\ layers' = MapSelected(layers, selectedLayerId, edited)
    /\ UNCHANGED << variant, tape, isLoading, selectedLayerId, isProcessing,
                    isDragging, dragStart, pending, timers, clock, nUploads,
                    issued, dragUid >>
    /\ RenderEffects(~(ControlDisabled \/ EarlyReturn))

rotateLeft  == EditClick([i \in 1..Len(layers) |-> RotLeft(layers[i])])
rotateRight == EditClick([i \in 1..Len(layers) |-> RotRight(layers[i])])
zoomIn      == EditClick([i \in 1..Len(layers) |-> ZoomedIn(layers[i])])
zoomOut     == EditClick([i \in 1..Len(layers) |-> ZoomedOut(layers[i])])

\* The same click in a session of any length: the handler without the count
\* of edits.  Builds A and B do not wrap the rotation; there it is followed
\* up to MaxTurn degrees either way.
EditAtLength(edited) ==
    /\ Mounted
    /\ ~(ControlDisabled \/ EarlyReturn)
    /\ ev' = MutationEvent
    /\ layers' = MapSelected(layers, selectedLayerId, edited)
    /\ \A i \in 1..Len(layers) : Abs(layers'[i].rotation) <= MaxTurn
    /\ UNCHANGED << variant, tape, isLoading, selectedLayerId, isProcessing,
                    isDragging, dragStart, pending, timers, clock, nUploads,
                    nEdits, issued, dragUid >>
    /\ RenderEffects(TRUE)

rotateLeftAtLength ==
    EditAtLength([i \in 1..Len(layers) |-> RotLeft(layers[i])])

rotateRightAtLength ==
    EditAtLength([i \in 1..Len(layers) |-> RotRight(layers[i])])

zoomInAtLength == EditAtLength([i \in 1..Len(layers) |-> ZoomedIn(layers[i])])

zoomOutAtLength == EditAtLength([i \in 1..Len(layers) |-> ZoomedOut(layers[i])])

\* resetLayer / doReset / handleReset
resetLayer ==
    /\ Mounted
    /\ ev' = MutationEvent
    /\ IF \/ ControlDisabled
          \/ EarlyReturn
          \/ (variant = "C" /\ ~HasLayer(layers, selectedLayerId))
       THEN UNCHANGED layers
       ELSE layers' = MapSelected(layers, selectedLayerId,
                        [i \in 1..Len(layers) |-> Defaulted(layers[i])])
    /\ UNCHANGED << variant, tape, isLoading, selectedLayerId, isProcessing,
                    isDragging, dragStart, pending, timers, clock, nUploads,
                    nEdits, issued, dragUid >>
    /\ RenderEffects(~(\/ ControlDisabled
                         \/ EarlyReturn
                         \/ (variant = "C" /\ ~HasLayer(layers, selectedLayerId))))

\* The three delete handlers, each as the values it gives to layers,
\* selectedLayerId and timers.
\* build A, deleteLayer
deleteLayerA ==
    IF selectedLayerId = NULL
    THEN UNCHANGED << layers, selectedLayerId, timers >>
    ELSE /\ layers' = FilterOut(layers, selectedLayerId)
         /\ selectedLayerId' = LastIdOrNull(FilterOut(layers, selectedLayerId))
         /\ UNCHANGED timers

\* build B, doDelete: the selection is set by a setTimeout(..., 0)
doDeleteB ==
    /\ Len(timers) < MaxTimers
    /\ layers' = FilterOut(layers, selectedLayerId)
    /\ timers' = Append(timers, LastIdOrNull(FilterOut(layers, selectedLayerId)))
    /\ UNCHANGED selectedLayerId

\* build C, handleDelete
handleDeleteC ==
    /\ layers' = FilterOut(layers, selectedLayerId)
    /\ selectedLayerId' = NULL
    /\ UNCHANGED timers

\* A click on the delete button
deleteLayer ==
    /\ Mounted
    /\ ev' = ControlEvent
    /\ IF ControlDisabled
       THEN UNCHANGED << layers, selectedLayerId, timers >>
       ELSE CASE variant = "A" -> deleteLayerA
              [] variant = "B" -> doDeleteB
              [] variant = "C" -> handleDeleteC
    /\ UNCHANGED << variant, tape, isLoading, isProcessing, isDragging,
                    dragStart, pending, clock, nUploads, nEdits, issued, dragUid >>
    /\ RenderEffects(~ControlDisabled)

\* build B: a callback queued by doDelete runs
TimerFire ==
    /\ timers # << >>
    /\ selectedLayerId' = Head(timers)
    /\ timers' = Tail(timers)
    /\ ev' = "other"
    /\ UNCHANGED << variant, tape, isLoading, layers, isProcessing, isDragging,
                    dragStart, pending, clock, nUploads, nEdits, issued, dragUid >>
    /\ RenderEffects(FALSE)

\* A click on the i-th layer thumbnail (builds A and B, more than one layer)
SelectThumb(i) ==
    /\ Mounted
    /\ variant \in {"A", "B"}
    /\ Len(layers) > 1
    /\ i \in 1..Len(layers)
    /\ selectedLayerId' = layers[i].id
    /\ ev' = "other"
    /\ UNCHANGED << variant, tape, isLoading, layers, isProcessing, isDragging,
                    dragStart, pending, timers, clock, nUploads, nEdits,
                    issued, dragUid >>
    /\ RenderEffects(FALSE)

\* ----------------------------------------------------------- pointer events
\* handlePointerDown / onCanvasMouseDown / onCanvasTouchStart at client point c
PointerDown(c) ==
    LET pt == getCanvasCoords(c)
        k  == findLayerAtPoint(layers, pt[1], pt[2])
    IN  /\ Mounted
        /\ ev' = (IF k = 0 THEN "pointerDownMiss" ELSE "other")
        /\ IF k # 0
           THEN /\ nEdits < MaxEdits
                /\ nEdits' = nEdits + 1
                /\ selectedLayerId' = layers[k].id
                /\ isDragging' = TRUE
                /\ dragStart' = [x |-> pt[1], y |-> pt[2],
                                 startX |-> layers[k].x, startY |-> layers[k].y]
                /\ dragUid' = layers[k].uid
           ELSE UNCHANGED << selectedLayerId, isDragging, dragStart, dragUid,
                             nEdits >>
        /\ UNCHANGED << variant, tape, isLoading, layers, isProcessing, pending,
                        timers, clock, nUploads, issued >>
        /\ RenderEffects(FALSE)

Dragged(l, pt) ==
    [l EXCEPT !.x = dragStart.startX + (pt[1] - dragStart.x),
              !.y = dragStart.startY + (pt[2] - dragStart.y)]

\* handlePointerMove / onCanvasMouseMove / onCanvasTouchMove at client point c
PointerMove(c) ==
    LET pt == getCanvasCoords(c)
    IN  /\ Mounted
        /\ ev' = (IF isDragging THEN MutationEvent ELSE "other")
        /\ IF ~isDragging \/ selectedLayerId = NULL
           THEN UNCHANGED layers
           ELSE layers' = MapSelected(layers, selectedLayerId,
                        [i \in 1..Len(layers) |-> Dragged(layers[i], pt)])
        /\ UNCHANGED << variant, tape, isLoading, selectedLayerId, isProcessing,
                        isDragging, dragStart, pending, timers, clock, nUploads,
                        nEdits, issued, dragUid >>
        /\ RenderEffects(isDragging /\ selectedLayerId # NULL)

\* handlePointerUp / onCanvasMouseUp / onCanvasTouchEnd
PointerUp ==
    /\ Mounted
    /\ ev' = "dragEnd"
    /\ isDragging' = FALSE
    /\ UNCHANGED << variant, tape, isLoading, layers, selectedLayerId,
                    isProcessing, dragStart, pending, timers, clock, nUploads,
                    nEdits, issued, dragUid >>
    /\ RenderEffects(FALSE)

\* Which builds bind a handler to a cancel event: only build A
\* (onPointerCancel); build B binds no onTouchCancel, build C no touch events.
CancelBound == variant = "A"

\* Which builds bind a handler to the pointer leaving the canvas: builds B and
\* C (onMouseLeave); build A captures the pointer and binds no leave handler.
LeaveBound == variant \in {"B", "C"}

\* Which builds can see a cancel event: build A listens to pointer events and
\* build B to touch events; build C listens to mouse events only, and the
\* browser cancels no mouse gesture.
CancelPossible == variant \in {"A", "B"}

\* a pointercancel / touchcancel event on the canvas
PointerCancel ==
    /\ Mounted
    /\ CancelPossible
    /\ ev' = "dragEnd"
    /\ isDragging' = (IF CancelBound THEN FALSE ELSE isDragging)
    /\ UNCHANGED << variant, tape, isLoading, layers, selectedLayerId,
                    isProcessing, dragStart, pending, timers, clock, nUploads,
                    nEdits, issued, dragUid >>
    /\ RenderEffects(FALSE)

\* the pointer leaves the canvas
PointerLeave ==
    /\ Mounted
    /\ ev' = "dragEnd"
    /\ isDragging' = (IF LeaveBound THEN FALSE ELSE isDragging)
    /\ UNCHANGED << variant, tape, isLoading, layers, selectedLayerId,
                    isProcessing, dragStart, pending, timers, clock, nUploads,
                    nEdits, issued, dragUid >>
    /\ RenderEffects(FALSE)

\* ------------------------------------------- single-image customizer (part_004)
\* Canvas dimensions (internal resolution) of TapeCustomizer
CUSTOMIZER_WIDTH  == 1200
CUSTOMIZER_HEIGHT == 600
FitPercent        == 60      \* CANVAS_WIDTH * 0.6
FullScale         == 100     \* scale: 1
ZoomStepS         == 10      \* 0.1
ZoomMaxS          == 300     \* Math.min(..., 3)
ZoomMinS          == 10      \* Math.max(..., 0.1)

\* useState<Transform>({ x: CANVAS_WIDTH / 2, y: CANVAS_HEIGHT / 2, scale: 1,
\* rotation: 0 }); the scale in hundredths
InitialTransform ==
    [x |-> CUSTOMIZER_WIDTH \div 2, y |-> CUSTOMIZER_HEIGHT \div 2,
     scale |-> FullScale, rotation |-> 0]

\* Math.min(scaleX, scaleY, 1) of the image decoded from file f, in
\* hundredths
AutoScale(f) ==
    Min(Min((CUSTOMIZER_WIDTH * FitPercent) \div ImgWidth(f),
            (CUSTOMIZER_HEIGHT * FitPercent) \div ImgHeight(f)),
        FullScale)

\* the transform set when an image is loaded or reset
AutoFit(f) ==
    [x |-> CUSTOMIZER_WIDTH \div 2, y |-> CUSTOMIZER_HEIGHT \div 2,
     scale |-> AutoScale(f), rotation |-> 0]

\* One selection in the file input: the File object picked by the n-th
\* accepted selection, and everything made from it.
Upload(n, f) == [up |-> n, file |-> f]

\* renderCanvas of TapeCustomizer: the drawing calls of a pass, in order
CustomizerCalls(img, tr, assets) ==
    << Call("clearRect", "source-over", NoLayer) >>
    \o (IF img # NULL
        THEN << Call("drawLayer", "source-over",
                     [uid |-> img.up, image |-> img.file, x |-> tr.x,
                      y |-> tr.y, scale |-> tr.scale,
                      rotation |-> tr.rotation]) >>
             \o (IF assets = "loaded"
                 THEN << Call("drawMask", "destination-in", NoLayer) >>
                 ELSE << >>)
        ELSE << >>)
    \o (IF assets = "loaded"
        THEN << Call("drawBase", "source-over", NoLayer) >> ELSE << >>)

\* canvas.toDataURL('image/png') after a pass: the encoding of what the calls
\* of the pass left on the canvas (every pass starts by clearing it)
CanvasDataUrl(calls) == [mime |-> "image/png", drawn |-> calls]

\* The render effect of TapeCustomizer, which React runs after every handler
\* (renderCanvas changes with userImage, tapeBase, tapeMask, transform and
\* with the onDesignChange function, which Configurator makes anew each time
\* it renders): onDesignChange(userImage ? canvas.toDataURL() : null), and
\* handleDesignChange of Configurator keeps the value.
CustomizerEffects ==
    designDataUrl' =
        (IF userImage' = NULL THEN NULL
         ELSE CanvasDataUrl(CustomizerCalls(userImage', transform', tapeAssets')))

\* what the handlers of the customizer leave alone
CustomizerFrame ==
    UNCHANGED << variant, configuratorVars, isDragging, uploaderVars,
                 maskedVars, checkout >>

\* Promise.all([loadImage(tapeBaseImg), loadImage(tapeMaskImg)]).then(...)
AssetsLoaded ==
    /\ variant = "S"
    /\ tapeAssets = "pending"
    /\ tapeAssets' = "loaded"
    /\ alert' = "none"
    /\ UNCHANGED << userImage, transform, reads, decodes, imageFile, cart,
                    completed, nUploads, nEdits >>
    /\ CustomizerEffects
    /\ CustomizerFrame

\* .catch(err => console.error(...))
AssetsFailed ==
    /\ variant = "S"
    /\ tapeAssets = "pending"
    /\ tapeAssets' = "failed"
    /\ alert' = "none"
    /\ UNCHANGED << userImage, transform, reads, decodes, imageFile, cart,
                    completed, nUploads, nEdits >>
    /\ CustomizerEffects
    /\ CustomizerFrame

\* handleImageUpload with file f picked, and handleImageFile of Configurator
handleImageUpload(f) ==
    /\ variant = "S"
    /\ nUploads < MaxUploads
    /\ IF ~IsImageType(f)
       THEN /\ alert' = "Please upload an image file"
            /\ UNCHANGED << reads, imageFile, nUploads >>
       ELSE /\ alert' = "none"
            /\ reads' = reads \cup { Upload(nUploads + 1, f) }
            /\ imageFile' = Upload(nUploads + 1, f)
            /\ nUploads' = nUploads + 1
    /\ UNCHANGED << tapeAssets, userImage, transform, decodes, cart,
                    completed, nEdits >>
    /\ CustomizerEffects
    /\ CustomizerFrame

\* reader.onload: img.src = event.target.result
ReaderLoaded(u) ==
    /\ variant = "S"
    /\ u \in reads
    /\ reads' = reads \ {u}
    /\ decodes' = decodes \cup {u}
    /\ alert' = "none"
    /\ UNCHANGED << tapeAssets, userImage, transform, imageFile, cart,
                    completed, nUploads, nEdits >>
    /\ CustomizerEffects
    /\ CustomizerFrame

\* img.onload: setUserImage(img) and the auto-fit transform
ImageLoaded(u) ==
    /\ variant = "S"
    /\ u \in decodes
    /\ decodes' = decodes \ {u}
    /\ userImage' = u
    /\ transform' = AutoFit(u.file)
    /\ completed' = Append(completed, u.up)
    /\ alert' = "none"
    /\ UNCHANGED << tapeAssets, reads, imageFile, cart, nUploads, nEdits >>
    /\ CustomizerEffects
    /\ CustomizerFrame

\* A click on a control that is rendered only with an image and sets the
\* transform to tr.
TransformClick(tr) ==
    /\ variant = "S"
    /\ userImage # NULL
    /\ nEdits < MaxEdits
    /\ nEdits' = nEdits + 1
    /\ transform' = tr
    /\ alert' = "none"
    /\ UNCHANGED << tapeAssets, userImage, reads, decodes, imageFile, cart,
                    completed, nUploads >>
    /\ CustomizerEffects
    /\ CustomizerFrame

handleZoomIn ==
    TransformClick([transform EXCEPT
                      !.scale = Min(transform.scale + ZoomStepS, ZoomMaxS)])

handleZoomOut ==
    TransformClick([transform EXCEPT
                      !.scale = Max(transform.scale - ZoomStepS, ZoomMinS)])

handleRotate ==
    TransformClick([transform EXCEPT
                      !.rotation = (transform.rotation + RotateStep) % FullTurn])

handleReset == TransformClick(AutoFit(userImage.file))

\* handleRemoveImage: the Remove button is rendered only with an image
handleRemoveImage ==
    /\ variant = "S"
    /\ userImage # NULL
    /\ nEdits < MaxEdits
    /\ nEdits' = nEdits + 1
    /\ userImage' = NULL
    /\ imageFile' = NULL
    /\ completed' = Append(completed, 0)
    /\ alert' = "none"
    /\ UNCHANGED << tapeAssets, transform, reads, decodes, cart, nUploads >>
    /\ CustomizerEffects
    /\ CustomizerFrame

\* handleAddToCart of Configurator
handleAddToCart ==
    /\ variant = "S"
    /\ Len(cart) < MaxCart
    /\ IF imageFile = NULL \/ designDataUrl = NULL
       THEN /\ alert' = "Please upload and customize a design first"
            /\ UNCHANGED cart
       ELSE /\ cart' = Append(cart, [imageFile |-> imageFile,
                                     thumbnail |-> designDataUrl])
            /\ alert' = "Added to cart"
    /\ UNCHANGED << tapeAssets, userImage, transform, reads, decodes,
                    imageFile, completed, nUploads, nEdits >>
    /\ CustomizerEffects
    /\ CustomizerFrame

\* every upload a selection can have made
Uploads ==
    { Upload(n, f) : n \in 1..MaxUploads, f \in ImageFiles \cup PhotoFiles }


\* --------------------------------------------------------------- ImageUploader
\* 10 * 1024 * 1024
MaxFileSize == 10485760

\* file.type of the files the user drops or picks, as major and minor type
FileTypes == { << "image", "png" >>, << "text", "plain" >> }

\* file.size of those files: around the limit, and 15MB
FileSizes == { MaxFileSize - 1, MaxFileSize, MaxFileSize + 1, 15 * 1024 * 1024 }

DroppedFiles == [type : FileTypes, size : FileSizes]

\* file.type.startsWith('image/')
StartsWithImage(type) == type[1] = "image"

\* a size test that also turns away a file of exactly the limit
TooLargeAtLimit(file) == file.size >= MaxFileSize

\* file.size > 10 * 1024 * 1024
TooLarge(file) == file.size > MaxFileSize

\* reader.readAsDataURL(file): the data URL of the file's bytes
ReadAsDataURL(file) == [mime |-> file.type, bytes |-> file.size]

\* what the handlers of the uploader leave alone
UploaderFrame ==
    UNCHANGED << variant, configuratorVars, customizerVars, maskedVars,
                 nUploads, nEdits, checkout >>

\* handleFile(file), for the file that becomes entry Len(chosen) + 1
handleFile(file) ==
    /\ chosen' = Append(chosen, file)
    /\ IF ~StartsWithImage(file.type)
       THEN /\ alert' = "Please upload an image file"
            /\ UNCHANGED reading
       ELSE IF TooLarge(file)
       THEN /\ alert' = "File size must be less than 10MB"
            /\ UNCHANGED reading
       ELSE /\ alert' = "none"
            /\ reading' = reading \cup { Len(chosen) + 1 }
    /\ UNCHANGED << selected, currentImage >>

\* The drop zone and the file input are rendered only without currentImage.
DropZoneShown == variant = "U" /\ currentImage = NULL

\* onDragOver
onDragOver ==
    /\ DropZoneShown
    /\ isDragging' = TRUE
    /\ alert' = "none"
    /\ UNCHANGED uploaderVars
    /\ UploaderFrame

\* onDragLeave
onDragLeave ==
    /\ DropZoneShown
    /\ isDragging' = FALSE
    /\ alert' = "none"
    /\ UNCHANGED uploaderVars
    /\ UploaderFrame

\* handleDrop with e.dataTransfer.files[0] = file
handleDrop(file) ==
    /\ DropZoneShown
    /\ Len(chosen) < MaxUploads
    /\ isDragging' = FALSE
    /\ handleFile(file)
    /\ UploaderFrame

\* handleDrop of something that is no file
handleDropNoFile ==
    /\ DropZoneShown
    /\ isDragging' = FALSE
    /\ alert' = "none"
    /\ UNCHANGED uploaderVars
    /\ UploaderFrame

\* handleFileInput with e.target.files[0] = file
handleFileInput(file) ==
    /\ DropZoneShown
    /\ Len(chosen) < MaxUploads
    /\ handleFile(file)
    /\ UNCHANGED isDragging
    /\ UploaderFrame

\* reader.onload of the read started for entry n: onImageSelect(file, result)
UploaderReadLoaded(n) ==
    /\ variant = "U"
    /\ n \in reading
    /\ reading' = reading \ {n}
    /\ selected' = Append(selected, [up |-> n, file |-> chosen[n],
                                     preview |-> ReadAsDataURL(chosen[n])])
    /\ alert' = "none"
    /\ UNCHANGED << chosen, currentImage, isDragging >>
    /\ UploaderFrame

\* The owner of the uploader passes a preview it was given as currentImage.
OwnerShows(i) ==
    /\ variant = "U"
    /\ i \in 1..Len(selected)
    /\ currentImage # selected[i].preview
    /\ currentImage' = selected[i].preview
    /\ alert' = "none"
    /\ UNCHANGED << chosen, reading, selected, isDragging >>
    /\ UploaderFrame

\* A click on the X button (rendered only with currentImage): onRemove(),
\* on which the owner takes currentImage away.
onRemove ==
    /\ variant = "U"
    /\ currentImage # NULL
    /\ currentImage' = NULL
    /\ alert' = "none"
    /\ UNCHANGED << chosen, reading, selected, isDragging >>
    /\ UploaderFrame


\* ------------------- configurator with a processed mask (TapeConfigurator.tsx)
MaskedX         == 350
MaskedY         == 350
MaskedScale     == 25      \* scale: 0.25
MaskedRotation  == -15
ZoomStepM       == 5       \* 0.05
ZoomMaxM        == 100     \* Math.min(1, ...)
ZoomMinM        == 5       \* Math.max(0.05, ...)
RotateStepM     == 5

\* loadImage('/tape.png') and loadImage('/tape-mask.png')
Assets == { "tape", "mask" }

\* { x: 350, y: 350, scale: 0.25, rotation: -15 }
MaskedTransform ==
    [x |-> MaskedX, y |-> MaskedY, scale |-> MaskedScale,
     rotation |-> MaskedRotation]

\* One pixel of imageData.data: four bytes.
Pixel(r, g, b, a) == [r |-> r, g |-> g, b |-> b, a |-> a]

\* the marker-colour test with >= for > in its first comparison
IsBlueOrEqual(p) == p.b >= 150 /\ p.b > p.r /\ p.g > 100

\* const isBlue = b > 150 && b > r && g > 100
IsBlue(p) == p.b > 150 /\ p.b > p.r /\ p.g > 100

\* the body of the loop over the pixels of imageData.data
ProcessPixel(p) ==
    IF IsBlue(p) THEN Pixel(255, 255, 255, 255) ELSE [p EXCEPT !.a = 0]

\* processMaskImage: the pixels of the canvas it returns
processMaskImage(data) == [i \in 1..Len(data) |-> ProcessPixel(data[i])]

\* The pixels of /tape-mask.png drawn on the mask canvas: one of the marker
\* blue (#6B93B8) and a black one.
TapeMaskData == << Pixel(107, 147, 184, 255), Pixel(0, 0, 0, 255) >>

\* The pixels processMaskImage is tried on: bytes on both sides of each
\* comparison of the test, with alpha 0, 128 and 255.
MaskPixels ==
    { Pixel(r, g, b, a) : r \in {100, 200, 255}, g \in {100, 101},
                          b \in {150, 151, 255}, a \in {0, 128, 255} }

\* images of MaskLen pixels
MaskImages == [1..MaskLen -> MaskPixels]

\* a catch that leaves the loading flag set
CatchKeepsLoading == TRUE

\* .catch(err => { ...; setIsLoading(false); }): the flag after it
CatchSetsLoading == FALSE

\* renderCanvas with the tape image loaded: the drawing calls, in order
MaskedCalls(img, tr, mask) ==
    << Call("fillRect", "source-over", NoLayer),
       Call("drawTape", "source-over", NoLayer) >>
    \o (IF img # NULL /\ mask # NULL
        THEN << Call("drawMaskedLayer", "multiply",
                     [uid |-> img.up, image |-> img.file, x |-> tr.x,
                      y |-> tr.y, scale |-> tr.scale,
                      rotation |-> tr.rotation]) >>
        ELSE << >>)

\* The render effect: renderCanvas returns at once without the tape image
\* (and without a canvas, which is not rendered while isLoading); otherwise
\* it draws and, with an image and its file, calls onDesignReady.
MaskedEffects ==
    exported' =
        (IF tape' = "loaded" /\ ~isLoading' /\ userImage' # NULL
            /\ userFile' # NULL
         THEN [image |-> CanvasDataUrl(MaskedCalls(userImage', transform',
                                                   processedMask')),
               files |-> << userFile' >>]
         ELSE exported)

\* what the handlers of this configurator leave alone
MaskedFrame ==
    UNCHANGED << variant, layers, selectedLayerId, isDragging, dragStart,
                 pending, timers, clock, ev, issued, dragUid, canvas, alert,
                 uploaderVars, tapeAssets, imageFile, designDataUrl, cart,
                 completed, checkout >>

\* img.onload / img.onerror of one of the two images, and what Promise.all
\* makes of it: then(...) once both are loaded, catch(...) at the first
\* failure.
AssetSettled(a, outcome) ==
    /\ variant = "M"
    /\ loads[a] = "pending"
    /\ loads' = [loads EXCEPT ![a] = outcome]
    /\ IF \A b \in Assets : loads'[b] = "loaded"
       THEN /\ tape' = "loaded"
            /\ processedMask' = processMaskImage(maskData)
            /\ isLoading' = FALSE
       ELSE IF outcome = "failed" /\ \A b \in Assets : loads[b] # "failed"
       THEN /\ tape' = "failed"
            /\ isLoading' = CatchSetsLoading
            /\ UNCHANGED processedMask
       ELSE UNCHANGED << tape, processedMask, isLoading >>
    /\ UNCHANGED << userImage, userFile, maskData, transform, reads, decodes,
                    isProcessing, nUploads, nEdits >>
    /\ MaskedEffects
    /\ MaskedFrame

\* handleFileChange; the upload button is disabled while isProcessing
handleFileChangeMasked(f) ==
    /\ variant = "M"
    /\ ~isLoading
    /\ ~isProcessing
    /\ nUploads < MaxUploads
    /\ IsImageType(f)
    /\ isProcessing' = TRUE
    /\ reads' = reads \cup { Upload(nUploads + 1, f) }
    /\ nUploads' = nUploads + 1
    /\ UNCHANGED << maskData, loads, tape, processedMask, isLoading, userImage,
                    userFile, transform, decodes, nEdits >>
    /\ MaskedEffects
    /\ MaskedFrame

\* reader.onload
ReaderLoadedMasked(u) ==
    /\ variant = "M"
    /\ u \in reads
    /\ reads' = reads \ {u}
    /\ decodes' = decodes \cup {u}
    /\ UNCHANGED << maskData, loads, tape, processedMask, isLoading, isProcessing,
                    userImage, userFile, transform, nUploads, nEdits >>
    /\ MaskedEffects
    /\ MaskedFrame

\* img.onload
ImageLoadedMasked(u) ==
    /\ variant = "M"
    /\ u \in decodes
    /\ decodes' = decodes \ {u}
    /\ userImage' = u
    /\ userFile' = u
    /\ transform' = MaskedTransform
    /\ isProcessing' = FALSE
    /\ UNCHANGED << maskData, loads, tape, processedMask, isLoading, reads, nUploads,
                    nEdits >>
    /\ MaskedEffects
    /\ MaskedFrame

\* A click on a control rendered with userImage && !isProcessing that sets
\* the transform to tr.
MaskedClick(tr) ==
    /\ variant = "M"
    /\ ~isLoading
    /\ userImage # NULL /\ ~isProcessing
    /\ nEdits < MaxEdits
    /\ nEdits' = nEdits + 1
    /\ transform' = tr
    /\ UNCHANGED << maskData, loads, tape, processedMask, isLoading, isProcessing,
                    userImage, userFile, reads, decodes, nUploads >>
    /\ MaskedEffects
    /\ MaskedFrame

zoomOutMasked ==
    MaskedClick([transform EXCEPT
                   !.scale = Max(ZoomMinM, transform.scale - ZoomStepM)])

zoomInMasked ==
    MaskedClick([transform EXCEPT
                   !.scale = Min(ZoomMaxM, transform.scale + ZoomStepM)])

rotateLeftMasked ==
    MaskedClick([transform EXCEPT !.rotation = transform.rotation - RotateStepM])

rotateRightMasked ==
    MaskedClick([transform EXCEPT !.rotation = transform.rotation + RotateStepM])

handleResetMasked == MaskedClick(MaskedTransform)

\* handleRemove
handleRemoveMasked ==
    /\ variant = "M"
    /\ ~isLoading
    /\ userImage # NULL /\ ~isProcessing
    /\ nEdits < MaxEdits
    /\ nEdits' = nEdits + 1
    /\ userImage' = NULL
    /\ userFile' = NULL
    /\ UNCHANGED << maskData, loads, tape, processedMask, isLoading, isProcessing,
                    transform, reads, decodes, nUploads >>
    /\ MaskedEffects
    /\ MaskedFrame


\* ------------------------------------------------------- mask pre-processing
\* processMaskImage(maskImg) on a mask image of any pixels
ProcessMask ==
    /\ variant = "P"
    /\ processedMask = NULL
    /\ processedMask' = processMaskImage(maskData)
    /\ UNCHANGED << variant, configuratorVars, isDragging, nUploads, nEdits,
                    alert, customizerVars, uploaderVars, loads, userFile,
                    maskData, checkout >>

\* ----------------------------------------------------------------- Checkout
\* The carts checked out: one or two items, each holding an image file still
\* to be uploaded ("file") or only a thumbnail ("thumbnail").
ItemKinds == {"file", "thumbnail"}

Carts == UNION { [1..n -> ItemKinds] : n \in 1..MaxItems }

\* Checkout as mounted with the cart items: useState(false) twice, no
\* request in flight.  step is the position of handleSubmit: "form" (not
\* running), "uploading" (await Promise.all), "saving" (await savePreorder),
\* "confirming" (the 1500 ms wait), "complete" (onComplete scheduled), "done".
CheckoutInitial(items) ==
    [ items |-> items, isProcessing |-> FALSE, isComplete |-> FALSE,
      step |-> "form", uploads |-> [i \in 1..Len(items) |-> "none"],
      saved |-> "none", alerted |-> FALSE, submits |-> 0,
      completeCalls |-> 0 ]

CheckoutMount == checkout = CheckoutInitial(<< "thumbnail" >>)

CheckoutFrame ==
    UNCHANGED << variant, configuratorVars, isDragging, nUploads, nEdits,
                 alert, customizerVars, uploaderVars, maskedVars >>

\* items.map(async item => ...) : uploadToImgBB is called for the items
\* with an image file, the others resolve at once
StartedUploads(items) ==
    [i \in 1..Len(items) |-> IF items[i] = "file" THEN "pending" ELSE "ok"]

\* handleSubmit up to its first await; the submit button is disabled while
\* isProcessing
handleSubmit ==
    /\ variant = "K"
    /\ checkout.step = "form"
    /\ ~checkout.isProcessing
    /\ checkout.submits < MaxSubmits
    /\ checkout' = [checkout EXCEPT !.isProcessing = TRUE,
                                    !.step = "uploading",
                                    !.uploads = StartedUploads(checkout.items),
                                    !.saved = "none",
                                    !.alerted = FALSE,
                                    !.submits = @ + 1]
    /\ CheckoutFrame

\* the catch block of handleSubmit
Caught(c) ==
    [c EXCEPT !.step = "form", !.alerted = TRUE, !.isProcessing = FALSE]

\* uploadToImgBB of item i resolves with the url ("ok") or throws
\* ("failed"): Promise.all rejects with the first failure.
UploadSettled(i, outcome) ==
    /\ variant = "K"
    /\ checkout.step = "uploading"
    /\ i \in 1..Len(checkout.items)
    /\ checkout.uploads[i] = "pending"
    /\ checkout' =
         (IF outcome = "failed"
          THEN Caught([checkout EXCEPT !.uploads[i] = "failed"])
          ELSE [checkout EXCEPT !.uploads[i] = "ok"])
    /\ CheckoutFrame

\* Promise.all has resolved: orderItems is built and savePreorder is called
AllUploaded ==
    /\ variant = "K"
    /\ checkout.step = "uploading"
    /\ \A i \in 1..Len(checkout.items) : checkout.uploads[i] = "ok"
    /\ checkout' = [checkout EXCEPT !.step = "saving"]
    /\ CheckoutFrame

\* what savePreorder gives back: { success: true, id } when addDoc stored
\* the document, { success: false, error } when addDoc threw
SavePreorderResult(outcome) == [success |-> (outcome = "stored")]

\* what handleSubmit does with the result of savePreorder: it awaits the
\* call and goes on
ContinuesAfterSave(result) == TRUE

\* savePreorder settles; handleSubmit starts the 1500 ms wait
SaveSettled(outcome) ==
    /\ variant = "K"
    /\ checkout.step = "saving"
    /\ checkout' =
         (IF ContinuesAfterSave(SavePreorderResult(outcome))
          THEN [checkout EXCEPT !.saved = outcome, !.step = "confirming"]
          ELSE Caught([checkout EXCEPT !.saved = outcome]))
    /\ CheckoutFrame

\* the 1500 ms wait ends: setIsComplete(true), onComplete scheduled
ConfirmTimer ==
    /\ variant = "K"
    /\ checkout.step = "confirming"
    /\ checkout' = [checkout EXCEPT !.isComplete = TRUE, !.step = "complete"]
    /\ CheckoutFrame

\* setTimeout(() => onComplete(), 3000): handleCheckoutComplete empties the
\* cart
CompleteTimer ==
    /\ variant = "K"
    /\ checkout.step = "complete"
    /\ checkout' = [checkout EXCEPT !.step = "done", !.items = << >>,
                                    !.completeCalls = @ + 1]
    /\ CheckoutFrame

\* --------------------------------------------------------------------- Init
\* The state after construction: the useState / useRef initial values; the
\* tape image is still loading.
ConfiguratorMount ==
    /\ tape = "pending"
    /\ isLoading = (variant \in {"A", "B", "M"})
    /\ layers = << >>
    /\ selectedLayerId = NULL
    /\ isProcessing = FALSE
    /\ isDragging = FALSE
    /\ dragStart = EmptyDrag
    /\ pending = [f \in ImageFiles |-> 0]
    /\ timers = << >>
    /\ clock = 1
    /\ nUploads = 0
    /\ nEdits = 0
    /\ ev = "other"
    /\ issued = << >>
    /\ dragUid = 0
    /\ canvas = Blank
    /\ exported = NoExport
    /\ alert = "none"

\* TapeCustomizer and Configurator after the first render
CustomizerMount ==
    /\ tapeAssets = "pending"
    /\ userImage = NULL
    /\ transform = (IF variant = "M" THEN MaskedTransform ELSE InitialTransform)
    /\ reads = {}
    /\ decodes = {}
    /\ imageFile = NULL
    /\ designDataUrl = NULL
    /\ cart = << >>
    /\ completed = << >>

\* ImageUploader after the first render, with no currentImage given
UploaderMount ==
    /\ chosen = << >>
    /\ reading = {}
    /\ selected = << >>
    /\ currentImage = NULL

\* the configurator with a processed mask after the first render
MaskedMount ==
    /\ loads = [a \in Assets |-> "pending"]
    /\ processedMask = NULL
    /\ userFile = NULL

Init ==
    /\ variant \in Variants
    /\ ConfiguratorMount
    /\ CustomizerMount
    /\ UploaderMount
    /\ MaskedMount
    /\ CheckoutMount
    /\ maskData = TapeMaskData

\* --------------------------------------------------------------------- Next
Next ==
    \/ TapeLoaded
    \/ TapeFailed
    \/ \E f \in Files : FileChange(f)
    \/ \E f \in ImageFiles : Decode(f)
    \/ \E f \in ImageFiles : DecodeFail(f)
    \/ rotateLeft
    \/ rotateRight
    \/ zoomIn
    \/ zoomOut
    \/ resetLayer
    \/ deleteLayer
    \/ TimerFire
    \/ \E i \in 1..MaxUploads : SelectThumb(i)
    \/ \E c \in ClientPoints : PointerDown(c)
    \/ \E c \in ClientPoints : PointerMove(c)
    \/ PointerUp
    \/ PointerCancel
    \/ PointerLeave

Spec == Init /\ [][Next]_vars

\* ------------------------------------------------------- the customizer page
\* currentDesign of CustomizerPage: null at first, then { url } of the last
\* call of handleDesignReady, which is the page's onDesignReady
currentDesign ==
    IF exported = NoExport THEN NULL ELSE [url |-> exported.image]

\* the Preorder button: disabled={!currentDesign}; handlePreorder and
\* handleSubmitPreorder return early without a design
PreorderDisabled == currentDesign = NULL

\* --------------------------------------------------------------- Checkout
InitCheckout ==
    /\ variant = "K"
    /\ ConfiguratorMount
    /\ CustomizerMount
    /\ UploaderMount
    /\ MaskedMount
    /\ maskData = TapeMaskData
    /\ checkout \in { CheckoutInitial(items) : items \in Carts }

NextCheckout ==
    \/ handleSubmit
    \/ \E i \in 1..MaxItems : \E outcome \in {"ok", "failed"} :
          UploadSettled(i, outcome)
    \/ AllUploaded
    \/ \E outcome \in {"stored", "failed"} : SaveSettled(outcome)
    \/ ConfirmTimer
    \/ CompleteTimer

SpecCheckout == InitCheckout /\ [][NextCheckout]_vars

\* ----------------------------------------------- uploads and their decodes
\* The tape asset and the uploads alone.  A read that was started ends: the
\* FileReader and the image each fire load or error.
NextUploads ==
    \/ TapeLoaded
    \/ TapeFailed
    \/ \E f \in Files : FileChange(f)
    \/ \E f \in ImageFiles : Decode(f)
    \/ \E f \in ImageFiles : DecodeFail(f)

SpecUploads == Init /\ [][NextUploads]_vars

SpecUploadsLive ==
    /\ SpecUploads
    /\ \A f \in ImageFiles : WF_vars(Decode(f) \/ DecodeFail(f))

\* ------------------------------------------- the single-image customizer
InitSingle ==
    /\ variant = "S"
    /\ ConfiguratorMount
    /\ CustomizerMount
    /\ UploaderMount
    /\ MaskedMount
    /\ CheckoutMount
    /\ maskData = TapeMaskData

NextSingle ==
    \/ AssetsLoaded
    \/ AssetsFailed
    \/ \E f \in Files \cup PhotoFiles : handleImageUpload(f)
    \/ \E u \in Uploads : ReaderLoaded(u)
    \/ \E u \in Uploads : ImageLoaded(u)
    \/ handleZoomIn
    \/ handleZoomOut
    \/ handleRotate
    \/ handleReset
    \/ handleRemoveImage
    \/ handleAddToCart

SpecSingle == InitSingle /\ [][NextSingle]_vars

\* ------------------------------------------------------------ the uploader
InitUploader ==
    /\ variant = "U"
    /\ ConfiguratorMount
    /\ CustomizerMount
    /\ UploaderMount
    /\ MaskedMount
    /\ CheckoutMount
    /\ maskData = TapeMaskData

NextUploader ==
    \/ onDragOver
    \/ onDragLeave
    \/ \E file \in DroppedFiles : handleDrop(file)
    \/ handleDropNoFile
    \/ \E file \in DroppedFiles : handleFileInput(file)
    \/ \E n \in 1..MaxUploads : UploaderReadLoaded(n)
    \/ \E i \in 1..MaxUploads : OwnerShows(i)
    \/ onRemove

SpecUploader == InitUploader /\ [][NextUploader]_vars

\* --------------------------------- the configurator with a processed mask
InitMasked ==
    /\ variant = "M"
    /\ ConfiguratorMount
    /\ CustomizerMount
    /\ UploaderMount
    /\ MaskedMount
    /\ CheckoutMount
    /\ maskData = TapeMaskData

NextMasked ==
    \/ \E a \in Assets : \E outcome \in {"loaded", "failed"} :
          AssetSettled(a, outcome)
    \/ \E f \in Files : handleFileChangeMasked(f)
    \/ \E u \in Uploads : ReaderLoadedMasked(u)
    \/ \E u \in Uploads : ImageLoadedMasked(u)
    \/ zoomOutMasked
    \/ zoomInMasked
    \/ rotateLeftMasked
    \/ rotateRightMasked
    \/ handleResetMasked
    \/ handleRemoveMasked

SpecMasked == InitMasked /\ [][NextMasked]_vars

\* ------------------------------------------ one layer, edited at length
\* The state once the tape has loaded and a first upload of file 1 has been
\* decoded.
InitEdits ==
    /\ variant \in Variants
    /\ tape = "loaded"
    /\ isLoading = FALSE
    /\ layers = << FirstLayer(variant) >>
    /\ selectedLayerId = FirstLayer(variant).id
    /\ isProcessing = FALSE
    /\ isDragging = FALSE
    /\ dragStart = EmptyDrag
    /\ pending = [f \in ImageFiles |-> 0]
    /\ timers = << >>
    /\ clock = 1
    /\ nUploads = 1
    /\ nEdits = 0
    /\ ev = "other"
    /\ issued = << FirstLayer(variant).id >>
    /\ dragUid = 0
    /\ canvas = Paint(RenderCalls(layers, selectedLayerId), Blank)
    /\ exported = [image |-> canvas, files |-> ExportFiles(layers)]
    /\ alert = "none"
    /\ CustomizerMount
    /\ UploaderMount
    /\ MaskedMount
    /\ CheckoutMount
    /\ maskData = TapeMaskData

NextEdits ==
    \/ rotateLeftAtLength
    \/ rotateRightAtLength
    \/ zoomInAtLength
    \/ zoomOutAtLength
    \/ resetLayer

SpecEdits == InitEdits /\ [][NextEdits]_vars

\* ------------------------------------------------- mask pre-processing alone
InitMask ==
    /\ variant = "P"
    /\ ConfiguratorMount
    /\ CustomizerMount
    /\ UploaderMount
    /\ MaskedMount
    /\ CheckoutMount
    /\ maskData \in MaskImages

NextMask == ProcessMask

SpecMask == InitMask /\ [][NextMask]_vars

\* Every image load ends: the browser fires onload or onerror for each.
SpecMaskedLive ==
    /\ SpecMasked
    /\ \A a \in Assets :
          WF_vars(\E outcome \in {"loaded", "failed"} : AssetSettled(a, outcome))

\* ------------------------------------------------------------------ claims
\* The layer the list holds under serial number u, as a set of indices.
IndexOfUid(ls, u) == {i \in 1..Len(ls) : ls[i].uid = u}

Uids(ls) == [i \in 1..Len(ls) |-> ls[i].uid]

RECURSIVE IsSubseq(_, _)
\* a is b with some elements left out
IsSubseq(a, b) ==
    IF a = << >> THEN TRUE
    ELSE IF b = << >> THEN FALSE
    ELSE IF Head(a) = Head(b) THEN IsSubseq(Tail(a), Tail(b))
         ELSE IsSubseq(a, Tail(b))

\* ls without its i-th element
RemoveAt(ls, i) == SubSeq(ls, 1, i - 1) \o SubSeq(ls, i + 1, Len(ls))

\* the index layers.find(l => l.id === id) stops at
FirstWithId(ls, id) == CHOOSE i \in 1..Len(ls) :
    ls[i].id = id /\ \A j \in 1..(i - 1) : ls[j].id # id

\* C1: in every reachable state selectedLayerId is null or the id of a layer
\* in the layer list, the states between a delete and its deferred selection
\* update included.
C1_SelectionReferencesLayer ==
    selectedLayerId = NULL \/ \E i \in 1..Len(layers) : layers[i].id = selectedLayerId

\* C2: a click on delete while a layer is selected (the ids in the list being
\* distinct, so that "the selected layer" is one layer) removes exactly that
\* layer, and once no deferred selection update is waiting the selection is
\* the id of the last remaining layer, or null when none remains.
C2_DeleteReselectsLast ==
    [][ ( /\ deleteLayer
          /\ HasLayer(layers, selectedLayerId)
          /\ \A i, j \in 1..Len(layers) : i # j => layers[i].id # layers[j].id )
        => /\ layers' = RemoveAt(layers, FirstWithId(layers, selectedLayerId))
           /\ timers' = << >> =>
                 selectedLayerId' =
                     (IF Len(layers') > 0 THEN layers'[Len(layers')].id ELSE NULL)
      ]_vars

\* C3: no two layers of the list share an id, and no id is given to two layers
\* over the run.  Stated for builds B and C, whose ids are the reading of
\* Date.now() alone (build A appends a random suffix to it).
C3_LayerIdsUnique ==
    variant \in {"B", "C"} =>
        /\ \A i, j \in 1..Len(layers) : i # j => layers[i].id # layers[j].id
        /\ \A i, j \in 1..Len(issued) : i # j => issued[i] # issued[j]

\* C4: the layer list is in insertion order: a completed upload puts its layer
\* after all the layers already there, and every other step keeps the layers
\* that remain in the order they had.
C4_InsertionOrder ==
    [][ IF \E f \in ImageFiles, t \in 1..MaxClock, r \in RandSuffix(variant) :
              DecodeComplete(f, t, r)
        THEN /\ Len(layers') = Len(layers) + 1
             /\ SubSeq(layers', 1, Len(layers)) = layers
             /\ IndexOfUid(layers, layers'[Len(layers')].uid) = {}
        ELSE IsSubseq(Uids(layers'), Uids(layers))
      ]_vars

C4_Witness ==
    /\ Len(layers) = 2
    /\ layers[1].x # CANVAS_WIDTH \div 2
    /\ layers[2].rotation # 0

\* The point lies in the box of image.width * scale by image.height * scale
\* centred on the layer's x, y (edges left out), rotation ignored.
InBox(l, pt) ==
    /\ 2 * 100 * Abs(pt[1] - l.x) < ImgWidth(l.image) * l.scale
    /\ 2 * 100 * Abs(pt[2] - l.y) < ImgHeight(l.image) * l.scale

\* The point lies strictly outside that box.
OutsideBox(l, pt) ==
    \/ 2 * 100 * Abs(pt[1] - l.x) > ImgWidth(l.image) * l.scale
    \/ 2 * 100 * Abs(pt[2] - l.y) > ImgHeight(l.image) * l.scale

\* the last-added layer whose box contains the point
TopmostAt(ls, pt) == CHOOSE i \in 1..Len(ls) :
    InBox(ls[i], pt) /\ \A j \in (i + 1)..Len(ls) : ~InBox(ls[j], pt)

\* C5: a pointer-down selects the last-added layer whose unrotated box
\* contains the point and starts a drag that records the pointer position and
\* that layer's x, y; in particular a pointer-down at a layer's exact centre
\* selects that layer when no later-added layer's box contains the point.
C5_HitTestTopmost ==
    [][ \A c \in ClientPoints :
          LET pt == getCanvasCoords(c) IN
          PointerDown(c) =>
            /\ (\E i \in 1..Len(layers) : InBox(layers[i], pt)) =>
                 /\ selectedLayerId' = layers[TopmostAt(layers, pt)].id
                 /\ isDragging'
                 /\ dragStart' = [ x |-> pt[1], y |-> pt[2],
                                   startX |-> layers[TopmostAt(layers, pt)].x,
                                   startY |-> layers[TopmostAt(layers, pt)].y ]
            /\ \A i \in 1..Len(layers) :
                 ( /\ pt = << layers[i].x, layers[i].y >>
                   /\ \A j \in (i + 1)..Len(layers) : ~InBox(layers[j], pt) )
                 => selectedLayerId' = layers[i].id
      ]_vars

\* a drag has just started on the first-added of two layers, hit off its
\* centre at a point the later-added layer's box does not contain
C5_Witness ==
    /\ Len(layers) = 2
    /\ isDragging
    /\ dragUid = layers[1].uid
    /\ selectedLayerId = layers[1].id
    /\ selectedLayerId # layers[2].id
    /\ dragStart.x # dragStart.startX
    /\ dragStart.startX = layers[1].x
    /\ InBox(layers[1], << dragStart.x, dragStart.y >>)
    /\ ~InBox(layers[2], << dragStart.x, dragStart.y >>)

\* C6: a pointer-down at a point strictly outside every layer's box changes
\* neither the selection, nor the layer list, nor the drag state.
C6_HitTestMissIsNoOp ==
    [][ \A c \in ClientPoints :
          ( /\ PointerDown(c)
            /\ \A i \in 1..Len(layers) : OutsideBox(layers[i], getCanvasCoords(c)) )
          => UNCHANGED << selectedLayerId, layers, isDragging, dragStart >>
      ]_vars

\* a pointer-down has just missed both layers of a list with a selection
C6_Witness ==
    /\ ev = "pointerDownMiss"
    /\ Len(layers) = 2
    /\ selectedLayerId # NULL
    /\ ~isDragging

\* the position in the list of the layer hit by the last pointer-down
DraggedIndex == CHOOSE i \in 1..Len(layers) : layers[i].uid = dragUid

\* C7: while a drag is in progress, after every pointer-move the dragged
\* layer's position equals its position at pointer-down plus (pointer position
\* minus pointer-down position), in canvas units.
C7_DragFollowsPointer ==
    [][ \A c \in ClientPoints :
          ( /\ PointerMove(c)
            /\ isDragging
            /\ IndexOfUid(layers, dragUid) # {} )
          => LET pt == getCanvasCoords(c) IN
             /\ layers'[DraggedIndex].x = dragStart.startX + (pt[1] - dragStart.x)
             /\ layers'[DraggedIndex].y = dragStart.startY + (pt[2] - dragStart.y)
      ]_vars

\* C8: a pointer-move of a drag gesture back to the gesture's pointer-down
\* position leaves the dragged layer where it was before the gesture, whatever
\* pointer-moves came in between.
C8_DragZeroDelta ==
    [][ \A c \in ClientPoints :
          ( /\ PointerMove(c)
            /\ isDragging
            /\ IndexOfUid(layers, dragUid) # {}
            /\ getCanvasCoords(c) = << dragStart.x, dragStart.y >> )
          => /\ layers'[DraggedIndex].x = dragStart.startX
             /\ layers'[DraggedIndex].y = dragStart.startY
      ]_vars

\* C9: pointer-up, a cancel event and the pointer leaving the canvas each end
\* the drag, and while no drag is in progress a pointer-move changes no layer.
C9_DragEnds ==
    [][ /\ (PointerUp \/ PointerCancel \/ PointerLeave) => ~isDragging'
        /\ ev' = "dragEnd" => ~isDragging'
        /\ \A c \in ClientPoints :
             (PointerMove(c) /\ ~isDragging) => layers' = layers
      ]_vars

\* C10: with no layer selected, rotate-left, rotate-right, zoom-in, zoom-out,
\* reset and delete leave the layer list and the selection unchanged and queue
\* no deferred selection update.
C10_ControlsNoOpWithoutSelection ==
    [][ ( /\ selectedLayerId = NULL
          /\ \/ rotateLeft
             \/ rotateRight
             \/ zoomIn
             \/ zoomOut
             \/ resetLayer
             \/ deleteLayer )
        => /\ layers' = layers
           /\ selectedLayerId' = NULL
           /\ timers' = timers
      ]_vars

\* a control button has just been clicked with layers present and none selected
C10_Witness ==
    /\ ev = "controlNoSelection"
    /\ selectedLayerId = NULL
    /\ Len(layers) > 0
    /\ timers = << >>

\* C11: a rotate, zoom, reset or drag-move issued while the selection holds an
\* id that no layer of the list has leaves every layer unchanged (and the
\* handlers, which only map over the list, cannot throw).
C11_StaleSelectionMutationNoOp ==
    [][ ( /\ selectedLayerId # NULL
          /\ ~HasLayer(layers, selectedLayerId)
          /\ \/ rotateLeft
             \/ rotateRight
             \/ zoomIn
             \/ zoomOut
             \/ resetLayer
             \/ \E c \in ClientPoints : PointerMove(c) )
        => layers' = layers
      ]_vars

\* a transform mutation has just been issued with layers present and a
\* selection that names none of them
C11_Witness ==
    /\ ev = "mutationStale"
    /\ Len(layers) > 0
    /\ selectedLayerId # NULL
    /\ ~HasLayer(layers, selectedLayerId)

\* C12: whenever a layer exists, the image last given to onDesignReady is the
\* content of the canvas: every render pass that ran with a layer in the list
\* was followed by a call of onDesignReady carrying what the pass drew.
C12_ExportFollowsRender ==
    Len(layers) > 0 => /\ exported # NoExport
                       /\ exported.image = canvas

\* what a render pass on a fresh canvas draws for the list ls with selection id
Composite(ls, id) == Paint(RenderCalls(ls, id), Blank)

\* a render pass has run on the mounted canvas
Rendered == tape = "loaded" /\ ~isLoading

\* C13: the selection outline does not reach the exported bitmap: the image
\* given to onDesignReady for the layer list is the same whichever layer is
\* selected, and the same as with no selection.
C13_ExportIgnoresSelection ==
    (Rendered /\ Len(layers) > 0 /\ exported.image = canvas)
    => /\ exported.image = Composite(layers, NULL)
       /\ \A i \in 1..Len(layers) :
            Composite(layers, layers[i].id) = Composite(layers, NULL)

\* C14: two successive render passes over the same tape image and the same
\* ordered layer list with the same transforms leave the same canvas content.
C14_RenderDeterministic ==
    [][ (Rendered /\ tape' = tape /\ layers' = layers) => canvas' = canvas ]_vars

\* C15: after a render pass every watched pixel outside the opaque region of
\* the mask is fully transparent or has the value it has with no layers.
C15_MaskClipping ==
    Rendered =>
        \A p \in SamplePixels :
            ~TapeOpaque(p) =>
                \/ canvas[p] = Transparent
                \/ canvas[p] = Composite(<< >>, NULL)[p]

\* C16: where two layers overlap inside the mask and their pixels differ, the
\* composite shows the later-added layer (what the composite of that layer
\* alone shows), and swapping the two layers changes the composite there.
C16_ZOrderPrecedence ==
    (Rendered /\ Len(layers) = 2) =>
        \A p \in SamplePixels :
            ( /\ Covers(layers[1], p)
              /\ Covers(layers[2], p)
              /\ TapeOpaque(p)
              /\ ImageColor(layers[1].image) # ImageColor(layers[2].image) )
            => /\ Composite(layers, NULL)[p] = Composite(<< layers[2] >>, NULL)[p]
               /\ Composite(<< layers[2], layers[1] >>, NULL)[p]
                    # Composite(layers, NULL)[p]

\* the call is the drawing of the tape base with source-over blending
IsTapeBase(call) == call.op = "drawTape" /\ call.mode = "source-over"

\* the call draws a layer or intersects with the mask
IsLayerOrMask(call) ==
    \/ call.op = "drawLayer"
    \/ (call.op = "drawTape" /\ call.mode = "destination-in")

\* C17: in the render pass for the current layers the surface is cleared
\* first, and no layer is drawn and no mask applied after the tape base is
\* drawn with source-over blending.
C17_RenderOrder ==
    Rendered =>
        LET calls == RenderCalls(layers, selectedLayerId) IN
        /\ calls[1].op = "clearRect"
        /\ \A i, j \in 1..Len(calls) :
             (i < j /\ IsTapeBase(calls[i])) => ~IsLayerOrMask(calls[j])

\* C18: selecting a file whose MIME type does not start with 'image/' is
\* rejected with a user-facing notice, and starts no decode, creates no
\* layer, reports nothing and keeps layers, selection and processing flag.
C18_InvalidTypeRejected ==
    [][ ev' = "fileRejected"
        => /\ alert' # "none"
           /\ UNCHANGED << layers, selectedLayerId, isProcessing, pending,
                           exported >> ]_vars

\* C20: when two uploads overlap in the single-image customizer, then once
\* both decodes have completed the displayed image is the one whose decode
\* completed last, and the file the parent holds belongs to the same upload
\* as the displayed image, whichever decode completes first.
BothDecoded ==
    /\ nUploads = 2
    /\ reads = {} /\ decodes = {}
    /\ completed \in { << 1, 2 >>, << 2, 1 >> }

C20_LastDecodeWins ==
    BothDecoded
    => /\ userImage # NULL /\ userImage.up = completed[2]
       /\ imageFile = userImage

\* the calls of onImageSelect made for entry n of the files handled
ReportsOf(n) == { i \in 1..Len(selected) : selected[i].up = n }

\* C19: a file larger than 10 * 1024 * 1024 bytes is rejected: an error is
\* surfaced, the file is never read and onImageSelect is never called for it;
\* an image file of at most that size is read and reported exactly once.
C19_SizeLimit ==
    /\ [](\A n \in 1..Len(chosen) :
            IF chosen[n].size > MaxFileSize
            THEN n \notin reading /\ ReportsOf(n) = {}
            ELSE StartsWithImage(chosen[n].type)
                 => \/ n \in reading /\ ReportsOf(n) = {}
                    \/ /\ n \notin reading
                       /\ Cardinality(ReportsOf(n)) = 1
                       /\ \A i \in ReportsOf(n) : selected[i].file = chosen[n])
    /\ [][ (Len(chosen') > Len(chosen)
            /\ chosen'[Len(chosen')].size > MaxFileSize)
           => /\ alert' # "none"
              /\ UNCHANGED << reading, selected >> ]_vars

C19_Witness ==
    \E n, m \in 1..Len(chosen) :
        /\ StartsWithImage(chosen[n].type)
        /\ chosen[n].size = 15 * 1024 * 1024
        /\ chosen[m].size = MaxFileSize
        /\ Cardinality(ReportsOf(m)) = 1

\* C21: the loading flag is set from mount and stays set exactly until all
\* required assets have decoded or one of them has failed; it is then
\* cleared and never set again, and it is eventually cleared when every
\* asset load eventually succeeds or fails.
AllDecoded == \A a \in Assets : loads[a] = "loaded"

AnyFailed == \E a \in Assets : loads[a] = "failed"

C21_LoadingFlag ==
    /\ isLoading = TRUE
    /\ [](isLoading <=> ~(AllDecoded \/ AnyFailed))
    /\ [][~isLoading => ~isLoading']_vars
    /\ <>(~isLoading)

C21_Witness ==
    /\ ~isLoading
    /\ loads["tape"] = "loaded"
    /\ loads["mask"] = "failed"
    /\ userImage # NULL

\* the calls of a pass that need no tape image
NeedsNoTape(call) == call.op # "drawTape"

DegradedCalls(ls, id) == SelectSeq(RenderCalls(ls, id), NeedsNoTape)

\* C22: after the tape image failed to load the component stays interactive
\* and rendering degrades: uploads still create layers and the canvas shows
\* what a pass draws of the background and the layers, without the steps
\* that need the tape image.
C22_DegradedRendering ==
    (tape = "failed" /\ Len(layers) > 0)
    => canvas = Paint(DegradedCalls(layers, selectedLayerId), Blank)

\* the transform a layer is created with
IsDefaultTransform(l) ==
    /\ l.x = CANVAS_WIDTH \div 2
    /\ l.y = CANVAS_HEIGHT \div 2
    /\ l.scale = DefaultScale
    /\ l.rotation = 0

\* C23: each decoded upload appends exactly one layer, with the default
\* transform (canvas centre, scale 0.15, rotation 0), and makes that new
\* layer the selection; the layers that existed before are unchanged.
C23_DecodeAppendsDefaultLayer ==
    [][ Len(layers') > Len(layers)
        => /\ Len(layers') = Len(layers) + 1
           /\ SubSeq(layers', 1, Len(layers)) = layers
           /\ IsDefaultTransform(layers'[Len(layers')])
           /\ selectedLayerId' = layers'[Len(layers')].id
           /\ FindSelected(layers', selectedLayerId')
                = << layers'[Len(layers')] >> ]_vars

\* where layers.find(l => l.id === id) finds its layer; 0 when it finds none
SelectedIndex(ls, id) ==
    IF HasLayer(ls, id)
    THEN CHOOSE i \in 1..Len(ls) :
             ls[i].id = id /\ \A j \in 1..(i - 1) : ls[j].id # id
    ELSE 0

\* layer b is layer a with another transform
SameLayer(a, b) ==
    /\ a.uid = b.uid /\ a.id = b.id
    /\ a.image = b.image /\ a.file = b.file

\* C24: reset gives the selected layer exactly the transform it had at
\* creation, whatever drags, rotations and zooms it went through, and
\* changes no other layer.
C24_ResetRestoresCreation ==
    [][ resetLayer
        => /\ Len(layers') = Len(layers)
           /\ \A i \in 1..Len(layers) :
                 IF i = SelectedIndex(layers, selectedLayerId)
                 THEN /\ SameLayer(layers[i], layers'[i])
                      /\ IsDefaultTransform(layers'[i])
                 ELSE layers'[i] = layers[i] ]_vars

LayerFields == { "uid", "id", "image", "file", "x", "y", "scale", "rotation" }

\* layer b differs from layer a in the given fields at most
ChangedOnly(a, b, fields) == \A fld \in LayerFields \ fields : a[fld] = b[fld]

\* the step changes the given fields of one layer at most, and nothing else
\* of any layer
EditsOneLayer(fields) ==
    /\ Len(layers') = Len(layers)
    /\ \E k \in 0..Len(layers) :
          \A i \in 1..Len(layers) :
              IF i = k THEN ChangedOnly(layers[i], layers'[i], fields)
              ELSE layers'[i] = layers[i]

\* C25: a transform edit changes only the targeted fields of exactly one
\* layer: a drag-move only x and y, a rotation only rotation, a zoom only
\* scale; id, image and file of that layer and all of every other layer are
\* unchanged.
C25_EditFrame ==
    [][ /\ (rotateLeft \/ rotateRight) => EditsOneLayer({ "rotation" })
        /\ (zoomIn \/ zoomOut) => EditsOneLayer({ "scale" })
        /\ (\E c \in ClientPoints : PointerMove(c))
             => EditsOneLayer({ "x", "y" }) ]_vars

\* C26: mask pre-processing yields a binary stencil: a pixel that passes the
\* marker-colour test (b > 150, b > r, g > 100) becomes opaque white
\* (255, 255, 255, 255), every other pixel gets alpha 0, and no output pixel
\* has an alpha other than 0 or 255.
C26_BinaryStencil ==
    processedMask # NULL
    => /\ Len(processedMask) = Len(maskData)
       /\ \A i \in 1..Len(maskData) :
             /\ IF maskData[i].b > 150 /\ maskData[i].b > maskData[i].r
                    /\ maskData[i].g > 100
                THEN processedMask[i] = Pixel(255, 255, 255, 255)
                ELSE processedMask[i].a = 0
             /\ processedMask[i].a \in {0, 255}

C26_Witness ==
    /\ variant = "P"
    /\ processedMask # NULL
    /\ maskData[1].a = 128 /\ maskData[1].b = 150 /\ processedMask[1].a = 0
    /\ maskData[2].a = 128 /\ processedMask[2] = Pixel(255, 255, 255, 255)

\* C27: the source files given to onDesignReady are the files of all layers
\* that contribute to the exported composite: one file per current layer,
\* in the order of the layer list.
C27_ExportedFiles ==
    Len(layers) > 0
    => exported.files = [i \in 1..Len(layers) |-> layers[i].file]

\* the bounds of the scale in the build that runs
ScaleMin == IF variant = "C" THEN ZoomMinC ELSE ZoomMinAB

ScaleMax == IF variant = "C" THEN ZoomMaxC ELSE ZoomMaxAB

\* C28: after any sequence of zoom-in, zoom-out and reset from the default
\* scale, a layer's scale is positive and within the bounds of its
\* configuration: [0.01, 2] with the 0.03 step, [0.1, 3] with the 0.1 step.
C28_ScaleBounds ==
    \A i \in 1..Len(layers) :
        /\ layers[i].scale > 0
        /\ layers[i].scale >= ScaleMin
        /\ layers[i].scale <= ScaleMax

C28_Witness ==
    /\ variant = "A"
    /\ Len(layers) = 1
    /\ layers[1].scale = ZoomMinAB

\* C29: in the wrapping configurator the rotation moves in 15-degree steps
\* and stays in [0, 360) after any sequence of rotate-left and rotate-right,
\* and rotate-left followed by rotate-right, or the reverse, returns the
\* rotation to its previous value.
C29_RotationWraps ==
    /\ [](variant = "C" =>
            \A i \in 1..Len(layers) :
                /\ layers[i].rotation \in 0..(FullTurn - 1)
                /\ layers[i].rotation % RotateStep = 0
                /\ RotRight(RotLeft(layers[i])) = layers[i]
                /\ RotLeft(RotRight(layers[i])) = layers[i])
    /\ [][(variant = "C" /\ (rotateLeftAtLength \/ rotateRightAtLength)) =>
            /\ Len(layers') = Len(layers)
            /\ \A i \in 1..Len(layers) :
                  /\ rotateLeftAtLength =>
                        /\ (layers[i].rotation - layers'[i].rotation) % FullTurn
                             = RotateStep
                        /\ RotRight(layers'[i]) = layers[i]
                  /\ rotateRightAtLength =>
                        /\ (layers'[i].rotation - layers[i].rotation) % FullTurn
                             = RotateStep
                        /\ RotLeft(layers'[i]) = layers[i]]_vars

C29_Witness ==
    /\ variant = "C"
    /\ Len(layers) = 1
    /\ layers[1].rotation = FullTurn - RotateStep

\* C30: zoom is monotonic: zoom-out never increases the scale and zoom-in
\* never decreases it, for every scale the image can have, the auto-fit
\* scale of an image much larger than the canvas included.
C30_ZoomMonotonic ==
    [][ /\ handleZoomOut => transform'.scale <= transform.scale
        /\ handleZoomIn => transform'.scale >= transform.scale ]_vars

\* C31: a drag gesture moves only the layer hit at its pointer-down: after
\* the selection changes during the drag (a decode completes, a thumbnail is
\* clicked), a pointer-move of the gesture changes the position of no other
\* layer.
C31_DragMovesOnlyHitLayer ==
    [][ (isDragging /\ \E c \in ClientPoints : PointerMove(c)) =>
            /\ Len(layers') = Len(layers)
            /\ \A i \in 1..Len(layers) :
                  layers[i].uid # dragUid =>
                      /\ layers'[i].x = layers[i].x
                      /\ layers'[i].y = layers[i].y ]_vars

\* C32: onDesignReady is invoked only with a canvas on which a render pass
\* has completed: never while the tape asset is missing (not yet loaded, or
\* failed), when the render pass returns early without drawing.
C32_ExportOnlyWithTape ==
    [][ exported' # exported => tape' = "loaded" ]_vars

\* C33: every accepted upload eventually finishes: once a file has passed
\* validation and the processing flag is set, the flag is eventually
\* cleared, whether the file decodes or fails to be read or decoded.
C33_UploadFinishes == (isProcessing = TRUE) ~> (isProcessing = FALSE)

\* the uploads whose read or decode has not ended
InFlight == { f \in ImageFiles : pending[f] > 0 }

\* C34: the processing flag is set whenever at least one upload decode is
\* still in flight, also when several uploads overlap and one of them
\* completes before the others.
C34_FlagWhileInFlight ==
    (variant \in {"A", "B"} /\ InFlight # {}) => isProcessing = TRUE

\* Remove was pressed and no upload has been started since: the parent's
\* file is set by every accepted upload and cleared only by Remove.
RemovedAndIdle ==
    /\ imageFile = NULL
    /\ \E i \in 1..Len(completed) : completed[i] = 0

\* C35: after Remove in a single-image configurator no user image is shown
\* and none is reported to the parent until the user starts a new upload; a
\* decode already in flight when Remove was pressed brings no image back.
C35_RemoveStays ==
    RemovedAndIdle => (userImage = NULL /\ designDataUrl = NULL)

\* C36: the customizer page holds a design, and so enables Preorder, only
\* while the configurator has at least one layer: whenever the layer list is
\* empty, also after the last layer is deleted, currentDesign is null and a
\* preorder cannot be opened or submitted.
C36_DesignOnlyWithLayers ==
    Len(layers) = 0 => (currentDesign = NULL /\ PreorderDisabled)

\* an image upload or the save of the current submission has failed
UploadFailed == \E i \in DOMAIN checkout.uploads : checkout.uploads[i] = "failed"

SaveFailed == checkout.saved = "failed"

\* "Order Confirmed" is shown, or onComplete has been called
Confirmed == checkout.isComplete \/ checkout.completeCalls > 0

\* C37: Checkout reaches "Order Confirmed" and calls onComplete only if
\* every image upload succeeded and the preorder was persisted; if the
\* upload or the save fails the order is not confirmed, the cart is kept
\* and the processing flag is cleared so that the user can retry.
C37_ConfirmedOnlyIfPersisted ==
    /\ Confirmed =>
          /\ \A i \in DOMAIN checkout.uploads : checkout.uploads[i] = "ok"
          /\ checkout.saved = "stored"
    /\ (UploadFailed \/ SaveFailed) =>
          /\ ~Confirmed
          /\ Len(checkout.items) > 0
          /\ checkout.isProcessing = FALSE

====
